---------------------------- MODULE Spec2Model ----------------------------
(***************************************************************************)
(* A model of bin/posterior_toi.py: the estimate of a date of infection    *)
(* from the root-height column of a BEAST log and the sample dates that    *)
(* the identifiers of a FASTA file carry.                                  *)
(*                                                                         *)
(* Conventions.                                                            *)
(*  - A Python str is a sequence of one-character strings, so that split,  *)
(*    the regular expression of str2timedelta, strptime and strftime are   *)
(*    computed character by character.  Python indexes from 0 and TLA+     *)
(*    from 1: fields[0] of the code is fields[1] here.                     *)
(*  - A root height is a rational number of years, kept as a whole number  *)
(*    of 1/SampleDen years; a mean is a fraction [num, den] of years.      *)
(*    The float64 arithmetic of the code differs from the exact value by   *)
(*    far less than the microsecond to which timedelta rounds, for every   *)
(*    value of the model.                                                  *)
(*  - None is <<>> and a value x that may be None is <<x>>.                *)
(***************************************************************************)
EXTENDS Integers, Sequences, FiniteSets, TLC

VARIABLES
    argv,             \* the command line: [burnin, logfile, fasta]
    pc,               \* the statement main is at
    err,              \* the exception that ended the run ("" while none)
    a,                \* the parsed arguments (line 98)
    rootHeight,       \* tbl['treeModel.rootHeight'] (line 101)
    averaged,         \* rootHeight[burnin:] (line 104)
    toi,              \* the mean of averaged (line 104)
    fileIdx,          \* the element of a.fasta that processFasta is reading
    recIdx,           \* how many records of it the loop has consumed
    patientId,        \* processFasta's patientId
    patient,          \* processFasta's patient: sample-date key -> group
    returned,         \* the pairs processFasta returned (the list of line 107)
    latest_timepoint, \* line 110
    doi,              \* line 111
    output,           \* the lines printed (line 112)
    s,                \* the argument of a direct call of str2timedelta
    delay             \* its result, in days (<<>> before the call)

vars == <<argv, pc, err, a, rootHeight, averaged, toi, fileIdx, recIdx,
          patientId, patient, returned, latest_timepoint, doi, output, s, delay>>

mainVars == <<argv, pc, err, a, rootHeight, averaged, toi, fileIdx, recIdx,
              patientId, patient, returned, latest_timepoint, doi, output>>

(***************************************************************************)
(* Bounds of the model.                                                    *)
(***************************************************************************)
MaxRecs == 3        \* records in a FASTA file
MaxShort == 2       \* samples in a trace of arbitrary values
MaxRamp == 11       \* samples in a trace 1.0, 2.0, ..., n.0
MaxFiles == 2       \* FASTA paths on the command line
MaxLabel == 3       \* characters in a label given to str2timedelta
SampleDen == 4      \* a sample is a whole number of 1/SampleDen years

(***************************************************************************)
(* Constants of the program.                                               *)
(***************************************************************************)
DefaultBurnin == 10       \* add_argument('--burnin', default=10)
DaysPerMonth == 30        \* delay = 30 * int(m.group(1))
DefaultMonths == 12       \* delay = 30 * 12
DaysPerYear == 365        \* timedelta(days=365.0*toi)

None == <<>>
Some(x) == <<x>>

Max(S) == CHOOSE x \in S : \A y \in S : y <= x

(***************************************************************************)
(* Characters and decimal numerals.                                        *)
(***************************************************************************)
Digits == <<"0", "1", "2", "3", "4", "5", "6", "7", "8", "9">>

IsDigit(c) == \E i \in 1..10 : Digits[i] = c

DigitVal(c) == (CHOOSE i \in 1..10 : Digits[i] = c) - 1

AllDigits(str) == \A i \in 1..Len(str) : IsDigit(str[i])

\* int(str) of a string of decimal digits
RECURSIVE int(_)
int(str) ==
    IF str = <<>> THEN 0
    ELSE 10 * int(SubSeq(str, 1, Len(str) - 1)) + DigitVal(str[Len(str)])

\* the decimal numeral of v, zero-padded to width characters ('%02d')
RECURSIVE Pad(_, _)
Pad(v, width) ==
    IF width = 0 THEN <<>>
    ELSE Pad(v \div 10, width - 1) \o <<Digits[(v % 10) + 1]>>

(***************************************************************************)
(* str.split(sep): the fields between the occurrences of sep.              *)
(***************************************************************************)
RECURSIVE split(_, _)
split(str, sep) ==
    IF \A i \in 1..Len(str) : str[i] # sep THEN <<str>>
    ELSE LET i == CHOOSE i \in 1..Len(str) :
                      str[i] = sep /\ \A j \in 1..(i - 1) : str[j] # sep
         IN  <<SubSeq(str, 1, i - 1)>> \o split(SubSeq(str, i + 1, Len(str)), sep)

(***************************************************************************)
(* str2timedelta (lines 26-32).  re.match(r'(\d+)M$', s) matches at the    *)
(* start of s: the longest run of digits (one or more), then 'M', then the *)
(* end of the string, where '$' also matches just before a newline that    *)
(* ends the string.  The result is the number of days of the timedelta.    *)
(***************************************************************************)
LeadingDigits(str) ==
    Max({k \in 0..Len(str) : \A i \in 1..k : IsDigit(str[i])})

reMatch(str) ==
    LET k == LeadingDigits(str)
    IN  IF /\ k >= 1
           /\ Len(str) >= k + 1
           /\ str[k + 1] = "M"
           /\ \/ Len(str) = k + 1
              \/ Len(str) = k + 2 /\ str[k + 2] = "\n"
        THEN Some(SubSeq(str, 1, k))
        ELSE None

str2timedelta(str) ==
    LET m == reMatch(str)
    IN  IF m # None THEN DaysPerMonth * int(m[1])
        ELSE DaysPerMonth * DefaultMonths

(***************************************************************************)
(* The proleptic Gregorian calendar of datetime: the ordinal of a date     *)
(* (1 is 0001/01/01) and back, as datetime computes them for the           *)
(* subtraction of line 111 and the formatting of line 112.                 *)
(***************************************************************************)
IsLeap(y) == y % 4 = 0 /\ (y % 100 # 0 \/ y % 400 = 0)

DaysInMonth(y, m) ==
    IF m = 2 THEN (IF IsLeap(y) THEN 29 ELSE 28)
    ELSE IF m \in {4, 6, 9, 11} THEN 30 ELSE 31

DaysBeforeYear(y) ==
    (y - 1) * 365 + (y - 1) \div 4 - (y - 1) \div 100 + (y - 1) \div 400

RECURSIVE DaysBeforeMonth(_, _)
DaysBeforeMonth(y, m) ==
    IF m = 1 THEN 0 ELSE DaysBeforeMonth(y, m - 1) + DaysInMonth(y, m - 1)

toordinal(d) == DaysBeforeYear(d.year) + DaysBeforeMonth(d.year, d.month) + d.day

fromordinal(n) ==
    LET n0 == n - 1
        n400 == n0 \div 146097
        r400 == n0 % 146097
        n100 == r400 \div 36524
        r100 == r400 % 36524
        n4 == r100 \div 1461
        r4 == r100 % 1461
        n1 == r4 \div 365
        r1 == r4 % 365
        y == n400 * 400 + n100 * 100 + n4 * 4 + n1 + 1
    IN  IF n1 = 4 \/ n100 = 4
        THEN [year |-> y - 1, month |-> 12, day |-> 31]
        ELSE LET m == CHOOSE mm \in 1..12 :
                          /\ DaysBeforeMonth(y, mm) <= r1
                          /\ r1 < DaysBeforeMonth(y, mm) + DaysInMonth(y, mm)
             IN  [year |-> y, month |-> m, day |-> r1 - DaysBeforeMonth(y, m) + 1]

(***************************************************************************)
(* datetime.strptime(str, '%Y/%m/%d') (line 58): Some(date) or None for    *)
(* the ValueError.  %Y is four digits; %m and %d are one or two digits     *)
(* (a single digit is 1-9); the values must make a date of the calendar.   *)
(***************************************************************************)
OneOrTwoDigits(str) ==
    /\ Len(str) \in {1, 2}
    /\ AllDigits(str)
    /\ Len(str) = 1 => str # <<"0">>

strptime(str) ==
    LET f == split(str, "/")
    IN  IF /\ Len(f) = 3
           /\ Len(f[1]) = 4 /\ AllDigits(f[1])
           /\ OneOrTwoDigits(f[2])
           /\ OneOrTwoDigits(f[3])
           /\ int(f[1]) >= 1
           /\ int(f[2]) \in 1..12
           /\ int(f[3]) >= 1
           /\ int(f[3]) <= DaysInMonth(int(f[1]), int(f[2]))
        THEN Some([year |-> int(f[1]), month |-> int(f[2]), day |-> int(f[3])])
        ELSE None

\* datetime.strftime(d, '%Y/%m/%d') (line 112)
strftime(d) == Pad(d.year, 4) \o <<"/">> \o Pad(d.month, 2) \o <<"/">> \o Pad(d.day, 2)


(***************************************************************************)
(* timedelta(days=x) for x = num/den >= 0 (line 111): whole days, whole    *)
(* seconds of the rest, and the rest of that rounded to the nearest        *)
(* microsecond (ties to even), normalised to 0 <= seconds < 86400 and      *)
(* 0 <= microseconds < 1000000.                                            *)
(***************************************************************************)
RoundHalfEven(num, den) ==
    LET q == num \div den
        r == num % den
    IN  IF 2 * r < den THEN q
        ELSE IF 2 * r > den THEN q + 1
        ELSE IF q % 2 = 0 THEN q ELSE q + 1

\* a timedelta that drops the fraction of a day
timedeltaWholeDays(num, den) ==
    [days |-> num \div den, seconds |-> 0, microseconds |-> 0]

timedelta(num, den) ==
    LET d == num \div den
        secNum == (num % den) * 86400
        sec == secNum \div den
        us == RoundHalfEven((secNum % den) * 1000000, den)
        sec2 == sec + us \div 1000000
    IN  [days |-> d + sec2 \div 86400,
         seconds |-> sec2 % 86400,
         microseconds |-> us % 1000000]

\* datetime - timedelta (line 111), for a datetime at midnight
datetimeSub(date, td) ==
    LET whole == td.seconds = 0 /\ td.microseconds = 0
        day == fromordinal(toordinal(date) - td.days - (IF whole THEN 0 ELSE 1))
        borrow == IF td.microseconds > 0 THEN 1 ELSE 0
    IN  [year |-> day.year, month |-> day.month, day |-> day.day,
         second |-> IF whole THEN 0 ELSE 86400 - td.seconds - borrow,
         microsecond |-> (1000000 - td.microseconds) % 1000000]

(***************************************************************************)
(* Series.mean() of rootHeight[burnin:] (line 104): NaN for no samples.    *)
(***************************************************************************)
RECURSIVE Sum(_)
Sum(seq) == IF seq = <<>> THEN 0 ELSE seq[1] + Sum(Tail(seq))

NaN == [nan |-> TRUE, num |-> 0, den |-> 1]

\* a mean that is 0 for no samples
meanZeroOfNothing(seq) ==
    [nan |-> FALSE, num |-> Sum(seq), den |-> IF seq = <<>> THEN 1 ELSE Len(seq) * SampleDen]

mean(seq) ==
    IF seq = <<>> THEN NaN
    ELSE [nan |-> FALSE, num |-> Sum(seq), den |-> Len(seq) * SampleDen]

\* burnin = int(n*(a.burnin / 100.0)) (line 103), for an int a.burnin.  For
\* the default of 10 the float product truncates to n \div 10 for every
\* n below 200000.
burninCount(n, p) == (n * p) \div 100

\* rootHeight[burnin:] (line 104)
suffix(seq, b) == SubSeq(seq, b + 1, Len(seq))

(***************************************************************************)
(* The body of processFasta's loop (lines 49-61).                          *)
(***************************************************************************)
\* fields[i] of Python: None for the IndexError
index(fields, i) == IF i + 1 <= Len(fields) THEN Some(fields[i + 1]) ELSE None

\* a patient id that the first record sets for good
firstPatientId(old, fields) == IF old = None THEN Some(fields[1]) ELSE old

\* line 50
nextPatientId(old, fields) == Some(fields[1])

\* line 51
timePointOf(fields) == IF Len(fields) > 0 THEN index(fields, 1) ELSE Some(<<"0">>)

\* line 52
sampleDateOf(fields) == IF Len(fields) > 3 THEN index(fields, 4) ELSE Some(<<"0">>)

\* a loop body that sets date and delta at every record
collectOverwrite(pat, sampleDate, timePoint, taxon) ==
    (sampleDate :> [taxa |-> IF sampleDate \in DOMAIN pat
                             THEN Append(pat[sampleDate].taxa, taxon)
                             ELSE <<taxon>>,
                    date |-> strptime(sampleDate)[1],
                    delta |-> str2timedelta(timePoint)]) @@ pat

\* lines 55-61, for a sampleDate that strptime accepts when it is new
collect(pat, sampleDate, timePoint, taxon) ==
    IF sampleDate \in DOMAIN pat
    THEN [pat EXCEPT ![sampleDate].taxa = Append(@, taxon)]
    ELSE (sampleDate :> [taxa |-> <<taxon>>,
                         date |-> strptime(sampleDate)[1],
                         delta |-> str2timedelta(timePoint)]) @@ pat

EmptyDict == [k \in {} |-> 0]

(***************************************************************************)
(* Lines 107-110.  dict(pairs) keeps, for a key given twice, the last      *)
(* value.                                                                  *)
(***************************************************************************)
dict(pairs) ==
    [k \in {pairs[i][1] : i \in 1..Len(pairs)} |->
        pairs[Max({i \in 1..Len(pairs) : pairs[i][1] = k})][2]]

dates(patients) ==
    {patients[p][k].date : <<p, k>> \in
        UNION {{<<p, k>> : k \in DOMAIN patients[p]} : p \in DOMAIN patients}}

Before(d1, d2) == toordinal(d1) <= toordinal(d2)

max(ds) == CHOOSE d \in ds : \A e \in ds : Before(e, d)

(***************************************************************************)
(* The inputs.                                                             *)
(***************************************************************************)
Bar == <<"|">>
X == <<"x">>
Y == <<"y">>
Jan1 == <<"2", "0", "2", "0", "/", "0", "1", "/", "0", "1">>
Jun1 == <<"2", "0", "2", "0", "/", "0", "6", "/", "0", "1">>
Jun1Short == <<"2", "0", "2", "0", "/", "6", "/", "1">>
Month13 == <<"2", "0", "2", "0", "/", "1", "3", "/", "0", "1">>

Id(pat, label, date) == pat \o Bar \o label \o Bar \o X \o Bar \o Y \o Bar \o date

Ids ==
    { Id(<<"A">>, <<"1", "M">>, Jan1),
      Id(<<"A">>, <<"1", "M">>, Jun1),
      Id(<<"B">>, <<"6", "M">>, Jun1),
      Id(<<"A">>, <<"x", "y", "z">>, Jun1Short),
      Id(<<"A">>, <<"3", "M">>, Month13),
      <<"A">>,
      <<"A", "|", "1", "M">>,
      <<"A", "|", "1", "M", "|", "x", "|", "y">> }

SeqsUpTo(S, n) == UNION {[1..k -> S] : k \in 0..n}

Missing == [exists |-> FALSE, ids |-> <<>>]

FastaFiles == {Missing} \cup {[exists |-> TRUE, ids |-> r] : r \in SeqsUpTo(Ids, MaxRecs)}

OneRecordFiles == {Missing} \cup {[exists |-> TRUE, ids |-> <<i>>] : i \in Ids}

\* one path with any content, or another number of paths
FastaLists ==
    {<<f>> : f \in FastaFiles}
        \cup {<<>>}
        \cup UNION {[1..k -> OneRecordFiles] : k \in 2..MaxFiles}

SampleVals == {1, 2 * SampleDen}

Ramp(n) == [i \in 1..n |-> i * SampleDen]

\* short traces of any values, and the longest traces 1.0, 2.0, ..., n.0
Traces ==
    SeqsUpTo(SampleVals, MaxShort) \cup {Ramp(n) : n \in (MaxRamp - 2)..MaxRamp}

LogFiles ==
    { [exists |-> FALSE, hasColumn |-> FALSE, trace |-> <<>>],
      [exists |-> TRUE, hasColumn |-> FALSE, trace |-> <<>>] }
        \cup {[exists |-> TRUE, hasColumn |-> TRUE, trace |-> t] : t \in Traces}

\* no --burnin, or --burnin with the text of a whole number
BurninOpts == {None} \cup {Some(p) : p \in {0, 50}}

(***************************************************************************)
(* main (lines 91-112), a statement or a loop iteration at a time.         *)
(***************************************************************************)
Init ==
    /\ argv \in [burnin : BurninOpts, logfile : LogFiles, fasta : FastaLists]
    /\ pc = "parse_args"
    /\ err = ""
    /\ a = None
    /\ rootHeight = <<>>
    /\ averaged = <<>>
    /\ toi = None
    /\ fileIdx = 0
    /\ recIdx = 0
    /\ patientId = None
    /\ patient = EmptyDict
    /\ returned = <<>>
    /\ latest_timepoint = None
    /\ doi = None
    /\ output = <<>>
    /\ s = <<>>
    /\ delay = None

\* the exceptions that end a run
ExitErr == "SystemExit: 2"
KeyErr == "KeyError: 'treeModel.rootHeight'"
TypeErr == "TypeError: unsupported operand type(s) for /: 'str' and 'float'"
IndexErr == "IndexError: list index out of range"
DateErr == "ValueError: time data does not match format '%Y/%m/%d'"
EmptyErr == "Exception: Empty fasta file"
MaxErr == "ValueError: max() arg is an empty sequence"
NaNErr == "ValueError: cannot convert float NaN to integer"

raise(e) ==
    /\ pc' = "error"
    /\ err' = e

\* build_parser and parse_args (lines 74-88, 97-98): an existing logfile and
\* exactly one existing fasta, or argparse ends the run with status 2;
\* --burnin has no type, so a given value stays a str.
parse_args ==
    /\ pc = "parse_args"
    /\ IF /\ argv.logfile.exists
          /\ Len(argv.fasta) = 1
          /\ \A i \in 1..Len(argv.fasta) : argv.fasta[i].exists
       THEN /\ a' = Some([burnin |-> IF argv.burnin = None
                                      THEN [type |-> "int", val |-> DefaultBurnin]
                                      ELSE [type |-> "str", val |-> argv.burnin[1]],
                          logfile |-> <<argv.logfile>>,
                          fasta |-> argv.fasta])
            /\ pc' = "read_table"
            /\ err' = err
       ELSE /\ raise(ExitErr)
            /\ a' = a
    /\ UNCHANGED <<argv, rootHeight, averaged, toi, fileIdx, recIdx, patientId,
                   patient, returned, latest_timepoint, doi, output, s, delay>>

\* lines 100-101
read_table ==
    /\ pc = "read_table"
    /\ IF a[1].logfile[1].hasColumn
       THEN /\ rootHeight' = a[1].logfile[1].trace
            /\ pc' = "burnin"
            /\ err' = err
       ELSE /\ raise(KeyErr)
            /\ rootHeight' = rootHeight
    /\ UNCHANGED <<argv, a, averaged, toi, fileIdx, recIdx, patientId,
                   patient, returned, latest_timepoint, doi, output, s, delay>>

\* lines 102-104, and the entry into the first processFasta of line 107
trim ==
    /\ pc = "burnin"
    /\ IF a[1].burnin.type = "int"
       THEN LET n == Len(rootHeight)
                burnin == burninCount(n, a[1].burnin.val)
            IN  /\ averaged' = suffix(rootHeight, burnin)
                /\ toi' = Some(mean(suffix(rootHeight, burnin)))
                /\ pc' = "processFasta"
                /\ fileIdx' = 1
                /\ err' = err
       ELSE /\ raise(TypeErr)
            /\ UNCHANGED <<averaged, toi, fileIdx>>
    /\ UNCHANGED <<argv, a, rootHeight, recIdx, patientId,
                   patient, returned, latest_timepoint, doi, output, s, delay>>

datafile == a[1].fasta[fileIdx]

\* one iteration of the loop of processFasta (lines 47-61)
loop ==
    /\ pc = "processFasta"
    /\ recIdx < Len(datafile.ids)
    /\ LET record == [pos |-> recIdx + 1, id |-> datafile.ids[recIdx + 1]]
           fields == split(record.id, "|")
           timePoint == timePointOf(fields)
           sampleDate == sampleDateOf(fields)
       IN  /\ recIdx' = recIdx + 1
           /\ patientId' = nextPatientId(patientId, fields)
           /\ IF timePoint = None \/ sampleDate = None
              THEN /\ raise(IndexErr)
                   /\ patient' = patient
              ELSE IF sampleDate[1] \notin DOMAIN patient /\ strptime(sampleDate[1]) = None
              THEN /\ raise(DateErr)
                   /\ patient' = patient
              ELSE /\ patient' = collect(patient, sampleDate[1], timePoint[1], record)
                   /\ UNCHANGED <<pc, err>>
    /\ UNCHANGED <<argv, a, rootHeight, averaged, toi, fileIdx, returned,
                   latest_timepoint, doi, output, s, delay>>

\* the value processFasta returns (line 64)
result(id, pat) == <<id, pat>>

\* the end of processFasta (lines 63-66) and the next element of line 107
return ==
    /\ pc = "processFasta"
    /\ recIdx = Len(datafile.ids)
    /\ IF patientId # None
       THEN /\ returned' = Append(returned, result(patientId[1], patient))
            /\ IF fileIdx < Len(a[1].fasta)
               THEN /\ fileIdx' = fileIdx + 1
                    /\ pc' = pc
               ELSE /\ fileIdx' = fileIdx
                    /\ pc' = "estimate"
            /\ recIdx' = 0
            /\ patientId' = None
            /\ patient' = EmptyDict
            /\ err' = err
       ELSE /\ raise(EmptyErr)
            /\ UNCHANGED <<returned, fileIdx, recIdx, patientId, patient>>
    /\ UNCHANGED <<argv, a, rootHeight, averaged, toi,
                   latest_timepoint, doi, output, s, delay>>

\* the days given to timedelta (line 111): 365.0*toi as a fraction
offsetDays(t) == [num |-> DaysPerYear * t.num, den |-> t.den]

\* lines 107-111
estimate ==
    /\ pc = "estimate"
    /\ LET ds == dates(dict(returned))
       IN  IF ds = {}
           THEN /\ raise(MaxErr)
                /\ UNCHANGED <<latest_timepoint, doi>>
           ELSE /\ latest_timepoint' = Some(max(ds))
                /\ IF toi[1].nan
                   THEN /\ raise(NaNErr)
                        /\ doi' = doi
                   ELSE /\ doi' = Some(datetimeSub(max(ds),
                                       timedelta(offsetDays(toi[1]).num,
                                                 offsetDays(toi[1]).den)))
                        /\ pc' = "print"
                        /\ err' = err
    /\ UNCHANGED <<argv, a, rootHeight, averaged, toi, fileIdx, recIdx, patientId,
                   patient, returned, output, s, delay>>

Prefix == "Estimated date of infection: "

\* line 112
print ==
    /\ pc = "print"
    /\ output' = Append(output, <<Prefix, strftime(doi[1])>>)
    /\ pc' = "done"
    /\ UNCHANGED <<argv, err, a, rootHeight, averaged, toi, fileIdx, recIdx,
                   patientId, patient, returned, latest_timepoint, doi, s, delay>>

Next ==
    \/ parse_args
    \/ read_table
    \/ trim
    \/ loop
    \/ return
    \/ estimate
    \/ print

Spec == Init /\ [][Next]_vars


(***************************************************************************)
(* A direct call of str2timedelta on any short label.                      *)
(***************************************************************************)
LabelChars == {"1", "3", "6", "M", "x", "\n"}

Labels == SeqsUpTo(LabelChars, MaxLabel)

InitStr ==
    /\ s \in Labels
    /\ delay = None
    /\ argv = [burnin |-> None, logfile |-> CHOOSE l \in LogFiles : ~l.exists, fasta |-> <<>>]
    /\ pc = "str2timedelta"
    /\ err = ""
    /\ a = None
    /\ rootHeight = <<>>
    /\ averaged = <<>>
    /\ toi = None
    /\ fileIdx = 0
    /\ recIdx = 0
    /\ patientId = None
    /\ patient = EmptyDict
    /\ returned = <<>>
    /\ latest_timepoint = None
    /\ doi = None
    /\ output = <<>>

call ==
    /\ pc = "str2timedelta"
    /\ delay = None
    /\ delay' = Some(str2timedelta(s))
    /\ UNCHANGED <<mainVars, s>>

NextStr == call

SpecStr == InitStr /\ [][NextStr]_vars

(***************************************************************************)
(* What the properties below speak of.                                     *)
(***************************************************************************)
PastTrim == pc \in {"processFasta", "estimate", "print", "done"}

\* the percentage the command line asks for
Percent == IF argv.burnin = None THEN DefaultBurnin ELSE argv.burnin[1]

Floor(num, den) == num \div den

Ceiling(num, den) == (num + den - 1) \div den

RoundHalfUp(num, den) == (2 * num + den) \div (2 * den)

\* the offset 365 x mean(averaged), in days, as a fraction
OffNum == DaysPerYear * Sum(averaged)
OffDen == Len(averaged) * SampleDen

DateMinus(d, k) == strftime(fromordinal(toordinal(d) - k))

FieldsOf(id) == split(id, "|")

\* an identifier of five or more fields whose field 4 is a date
GoodId(id) == Len(FieldsOf(id)) >= 5 /\ strptime(FieldsOf(id)[5]) # None

GoodFile(f) == f.exists /\ f.ids # <<>> /\ \A i \in 1..Len(f.ids) : GoodId(f.ids[i])

\* the records of the file being read that the loop has consumed
Consumed == 1..recIdx

KeyOf(i) == sampleDateOf(FieldsOf(datafile.ids[i]))[1]

(***************************************************************************)
(* C1, as amended: the printed date is D minus k whole days, where D is    *)
(* the latest sample date and k is m x 365 (m the post-burn-in mean)       *)
(* rounded UP to a whole day: the ceiling, not the nearest day and not the *)
(* truncation.  m = 2.0 and D = 2020/06/01 give 2018/06/02.                *)
(***************************************************************************)
C1_PrintedDateIsCeiling ==
    pc = "done" =>
        /\ output = <<<<Prefix, DateMinus(latest_timepoint[1], Ceiling(OffNum, OffDen))>>>>
        /\ (Sum(averaged) = 2 * Len(averaged) * SampleDen
               /\ latest_timepoint[1] = [year |-> 2020, month |-> 6, day |-> 1])
           => output[1][2] = <<"2", "0", "1", "8", "/", "0", "6", "/", "0", "2">>

\* C1, witness: a date was printed for an offset that is not a whole number
\* of days
C1_Witness == pc = "done" /\ OffNum % OffDen # 0 /\ Len(output) = 1

\* C1, as claimed: k is m x 365 rounded to the nearest whole day (ties
\* either way) or truncated to whole days
C1_PrintedDateIsRoundOrTrunc ==
    pc = "done" =>
        output[1][2] \in { DateMinus(latest_timepoint[1], Floor(OffNum, OffDen)),
                           DateMinus(latest_timepoint[1], RoundHalfUp(OffNum, OffDen)),
                           DateMinus(latest_timepoint[1], RoundHalfEven(OffNum, OffDen)) }

(***************************************************************************)
(* C2: for every integer burn-in percentage p in [0,100), given or         *)
(* default, the samples averaged are the trailing n - floor(n*p/100)       *)
(* samples of the trace, in chain order.                                   *)
(***************************************************************************)
C2_TrailingSamples ==
    (Percent \in 0..99 /\ (PastTrim \/ (pc = "error" /\ err = TypeErr))) =>
        /\ PastTrim
        /\ averaged = SubSeq(rootHeight,
                             Floor(Len(rootHeight) * Percent, 100) + 1,
                             Len(rootHeight))

\* C2 for the default percentage alone, which the code does satisfy
C2_TrailingSamplesByDefault ==
    (argv.burnin = None /\ (PastTrim \/ (pc = "error" /\ err = TypeErr))) =>
        /\ PastTrim
        /\ averaged = SubSeq(rootHeight,
                             Floor(Len(rootHeight) * DefaultBurnin, 100) + 1,
                             Len(rootHeight))

(***************************************************************************)
(* C3: a burn-in count >= n ends the run before any FASTA processing or    *)
(* date arithmetic: an undefined mean of no samples is never carried into  *)
(* them.                                                                   *)
(***************************************************************************)
C3_NoNaNCarriedForward == PastTrim => averaged # <<>> /\ toi # Some(NaN)

(***************************************************************************)
(* C4: for any list of one or more input FASTA files (each with records    *)
(* that all carry a date, and a trace that leaves samples), the run ends   *)
(* with a result whose latest sample date is the maximum over every group  *)
(* of every input file.                                                    *)
(***************************************************************************)
AllDates ==
    {strptime(FieldsOf(argv.fasta[j].ids[i])[5])[1] :
        <<j, i>> \in UNION {{<<j, i>> : i \in 1..Len(argv.fasta[j].ids)} :
                               j \in 1..Len(argv.fasta)}}

C4_LatestOverAllFiles ==
    ( /\ pc \in {"done", "error"}
      /\ Len(argv.fasta) >= 1
      /\ \A j \in 1..Len(argv.fasta) : GoodFile(argv.fasta[j])
      /\ argv.burnin = None
      /\ argv.logfile.exists /\ argv.logfile.hasColumn /\ argv.logfile.trace # <<>> ) =>
        /\ pc = "done"
        /\ latest_timepoint = Some(max(AllDates))

\* C4 for exactly one input file, which the code does satisfy
C4_LatestOverTheOneFile ==
    ( /\ pc \in {"done", "error"}
      /\ Len(argv.fasta) = 1
      /\ \A j \in 1..Len(argv.fasta) : GoodFile(argv.fasta[j])
      /\ argv.burnin = None
      /\ argv.logfile.exists /\ argv.logfile.hasColumn /\ argv.logfile.trace # <<>> ) =>
        /\ pc = "done"
        /\ latest_timepoint = Some(max(AllDates))

(***************************************************************************)
(* C5: while processFasta reads a file, every record consumed is in        *)
(* exactly one group, the one keyed by its raw sample-date string; the     *)
(* members of a group are in file order; the date and the offset of a      *)
(* group are those of the first record with its key, whatever the later    *)
(* records with that key carry.                                            *)
(***************************************************************************)
RECURSIVE Members(_, _)
Members(k, n) ==
    IF n = 0 THEN <<>>
    ELSE Members(k, n - 1) \o
         (IF KeyOf(n) = k THEN <<[pos |-> n, id |-> datafile.ids[n]]>> ELSE <<>>)

FirstWith(k) == CHOOSE i \in Consumed : KeyOf(i) = k /\ \A j \in Consumed : KeyOf(j) = k => i <= j

C5_OneGroupPerKey ==
    pc = "processFasta" =>
        /\ DOMAIN patient = {KeyOf(i) : i \in Consumed}
        /\ \A k \in DOMAIN patient :
              /\ patient[k].taxa = Members(k, recIdx)
              /\ patient[k].date = strptime(k)[1]
              /\ patient[k].delta = str2timedelta(FieldsOf(datafile.ids[FirstWith(k)])[2])

\* C5, witness: a group of two records that carry different time-point
\* labels, beside another group
C5_Witness ==
    /\ pc = "processFasta"
    /\ \E k \in DOMAIN patient :
          /\ Len(patient[k].taxa) = 2
          /\ FieldsOf(patient[k].taxa[1].id)[2] # FieldsOf(patient[k].taxa[2].id)[2]
          /\ patient[k].taxa[1].pos = 1
          /\ DOMAIN patient # {k}

(***************************************************************************)
(* C6: an identifier of k >= 1 fields gives the time-point label field 1   *)
(* (the default "0" when k = 1) and the sample date field 4 (the default   *)
(* "0" when k < 5), and no identifier ends the run with an index error.    *)
(***************************************************************************)
C6_FieldDefaults ==
    /\ err # IndexErr
    /\ \A i \in (IF pc = "processFasta" THEN Consumed ELSE {}) :
          LET f == FieldsOf(datafile.ids[i])
          IN  /\ timePointOf(f) = Some(IF Len(f) >= 2 THEN f[2] ELSE <<"0">>)
              /\ sampleDateOf(f) = Some(IF Len(f) >= 5 THEN f[5] ELSE <<"0">>)

(***************************************************************************)
(* C7: str2timedelta gives 30 x digits days for a label that is exactly    *)
(* one or more decimal digits and then 'M', and 360 days for every other   *)
(* label.                                                                  *)
(***************************************************************************)
DigitsThenM(l) ==
    /\ Len(l) >= 2
    /\ l[Len(l)] = "M"
    /\ AllDigits(SubSeq(l, 1, Len(l) - 1))

C7_DigitsMOrDefault ==
    delay # None =>
        delay[1] = IF DigitsThenM(s) THEN 30 * int(SubSeq(s, 1, Len(s) - 1)) ELSE 360

(***************************************************************************)
(* C8: processFasta on a file of no records raises the empty-file          *)
(* exception and returns nothing; on a file of one or more records, all    *)
(* with dates, it returns the patient id of the LAST record and the        *)
(* mapping from the sample-date keys of the file to their groups.          *)
(***************************************************************************)
LastId(f) == FieldsOf(f.ids[Len(f.ids)])[1]

KeysOf(f) == {FieldsOf(f.ids[i])[5] : i \in 1..Len(f.ids)}

C8_EmptyOrLastPatient ==
    /\ \A j \in 1..Len(returned) :
          /\ a[1].fasta[j].ids # <<>>
          /\ returned[j][1] = LastId(a[1].fasta[j])
          /\ DOMAIN returned[j][2] = KeysOf(a[1].fasta[j])
          /\ \A k \in DOMAIN returned[j][2] :
                \A i \in 1..Len(returned[j][2][k].taxa) :
                    FieldsOf(returned[j][2][k].taxa[i].id)[5] = k
    /\ (pc = "error" /\ err = EmptyErr) =>
          a[1].fasta[fileIdx].ids = <<>> /\ Len(returned) = fileIdx - 1
    /\ (pc \in {"processFasta", "error"} /\ fileIdx >= 1 /\ a[1].fasta[fileIdx].ids = <<>>) =>
          Len(returned) = fileIdx - 1 /\ (pc = "error" => err = EmptyErr)
    /\ (PastTrim /\ pc # "processFasta") => Len(returned) = Len(a[1].fasta)
    /\ (pc = "error" /\ fileIdx >= 1 /\ GoodFile(a[1].fasta[fileIdx])) =>
          err \notin {EmptyErr, IndexErr, DateErr}

\* C8, witness: processFasta has returned for a file whose first and last
\* records name different patients
C8_Witness ==
    /\ pc = "estimate"
    /\ Len(returned) = 1
    /\ returned[1][1] # FieldsOf(a[1].fasta[1].ids[1])[1]

(***************************************************************************)
(* C9: the date-parse failure is raised at the first record that brings a  *)
(* sample-date string that is not a date, and only for a string taken from *)
(* field 4 of an identifier of five or more fields: the default "0" of a   *)
(* shorter identifier does not raise it.                                   *)
(***************************************************************************)
C9_DateParseOnlyOnField4 ==
    (pc = "error" /\ err = DateErr) =>
        LET f == FieldsOf(datafile.ids[recIdx])
        IN  /\ Len(f) >= 5
            /\ strptime(f[5]) = None
            /\ \A i \in 1..(recIdx - 1) : KeyOf(i) # f[5]

(***************************************************************************)
(* C10: the result line is printed at most once, and only after the trace  *)
(* was loaded and trimmed and every FASTA file was processed; a missing    *)
(* file, a missing column, a malformed date, an empty FASTA file or a      *)
(* burn-in that leaves no samples ends the run in an error with no line    *)
(* printed.                                                                *)
(***************************************************************************)
ErrorCondition ==
    \/ ~argv.logfile.exists
    \/ \E j \in 1..Len(argv.fasta) : ~argv.fasta[j].exists
    \/ ~argv.logfile.hasColumn
    \/ \E j \in 1..Len(argv.fasta) : argv.fasta[j].ids = <<>>
    \/ \E j \in 1..Len(argv.fasta) : \E i \in 1..Len(argv.fasta[j].ids) :
          LET f == FieldsOf(argv.fasta[j].ids[i])
          IN  Len(f) >= 5 /\ strptime(f[5]) = None
    \/ Floor(Len(argv.logfile.trace) * Percent, 100) >= Len(argv.logfile.trace)
    \/ argv.fasta = <<>>

C10_AllOrNothing ==
    /\ Len(output) <= 1
    /\ output # <<>> =>
          /\ pc = "done"
          /\ err = ""
          /\ rootHeight = argv.logfile.trace
          /\ averaged # <<>>
          /\ Len(returned) = Len(argv.fasta)
    /\ pc = "done" => Len(output) = 1
    /\ ErrorCondition =>
          /\ output = <<>>
          /\ pc \notin {"print", "done"}
          /\ pc \in {"parse_args", "read_table", "burnin", "processFasta",
                    "estimate", "error"}
          /\ pc = "error" <=> err # ""

\* C10, witness: a run that a burn-in leaving no samples ended in an error,
\* after the FASTA file was processed, with nothing printed
C10_Witness ==
    /\ pc = "error"
    /\ err = NaNErr
    /\ returned # <<>>
    /\ output = <<>>

=============================================================================
